---- MODULE Spec2Model ----
(***************************************************************************)
(* State-vector simulator of ASoldo/quantum_simulator: Qubit (amplitude    *)
(* vector), Gate (matrix, factories, apply), Circuit (ordered gates, run)  *)
(* and Simulator::run.                                                     *)
(*                                                                         *)
(* Amplitudes are Complex<f64> in the source.  Every constant the gate     *)
(* factories produce is built from 0, 1, -1, i and h = 1/sqrt(2), so the   *)
(* model computes in the ring Z[1/2][sqrt 2] exactly: a real number is the *)
(* triple <<a, b, e>> standing for (a + b*sqrt(2)) / 2^e, kept in lowest   *)
(* terms.  Rounding of f64 is not modelled.                                *)
(***************************************************************************)
EXTENDS Integers, Sequences, FiniteSets, TLC

VARIABLES gates, initial, qubit, pc, idx, applied, random_number, measurement,
          call, gate, runs

vars == <<gates, initial, qubit, pc, idx, applied, random_number, measurement,
          call, gate, runs>>

(* ------------------------------ bounds --------------------------------- *)
MaxQubits == 2
MaxGates == 2
MaxApplies == 2
DrawBits == 1
MaxRuns == 2

(* --------------------------- real numbers ------------------------------ *)
RECURSIVE Pow2(_)
Pow2(n) == IF n <= 0 THEN 1 ELSE 2 * Pow2(n - 1)

RECURSIVE Norm(_, _, _)
Norm(a, b, e) ==
    IF e > 0 /\ a % 2 = 0 /\ b % 2 = 0
    THEN Norm(a \div 2, b \div 2, e - 1)
    ELSE <<a, b, e>>

RInt(k) == <<k, 0, 0>>

RAdd(x, y) ==
    LET e == IF x[3] > y[3] THEN x[3] ELSE y[3]
    IN Norm(x[1] * Pow2(e - x[3]) + y[1] * Pow2(e - y[3]),
            x[2] * Pow2(e - x[3]) + y[2] * Pow2(e - y[3]), e)

RNeg(x) == <<0 - x[1], 0 - x[2], x[3]>>

RSub(x, y) == RAdd(x, RNeg(y))

RMul(x, y) ==
    Norm(x[1] * y[1] + 2 * x[2] * y[2], x[1] * y[2] + x[2] * y[1], x[3] + y[3])

\* sign of (a + b*sqrt 2) / 2^e
RSign(x) ==
    LET a == x[1]
        b == x[2]
    IN IF a = 0 /\ b = 0 THEN 0
       ELSE IF a >= 0 /\ b >= 0 THEN 1
       ELSE IF a <= 0 /\ b <= 0 THEN 0 - 1
       ELSE IF a > 0 THEN (IF a * a > 2 * b * b THEN 1 ELSE 0 - 1)
       ELSE (IF 2 * b * b > a * a THEN 1 ELSE 0 - 1)

RLess(x, y) == RSign(RSub(y, x)) = 1

\* let h = 1.0 / (2.0_f64).sqrt()
h == <<0, 1, 1>>

(* -------------------------- complex numbers ---------------------------- *)
Complex(re, im) == <<re, im>>

CInt(re, im) == Complex(RInt(re), RInt(im))

CZero == CInt(0, 0)

CAdd(x, y) == Complex(RAdd(x[1], y[1]), RAdd(x[2], y[2]))

CMul(x, y) ==
    Complex(RSub(RMul(x[1], y[1]), RMul(x[2], y[2])),
            RAdd(RMul(x[1], y[2]), RMul(x[2], y[1])))

norm_sqr(x) == RAdd(RMul(x[1], x[1]), RMul(x[2], x[2]))

(* ------------------------------ bits ----------------------------------- *)
\* (i >> k) & 1
Bit(i, k) == (i \div Pow2(k)) % 2

RECURSIVE BitXor(_, _)
BitXor(a, b) ==
    IF a = 0 THEN b
    ELSE IF b = 0 THEN a
    ELSE 2 * BitXor(a \div 2, b \div 2) + (IF a % 2 = b % 2 THEN 0 ELSE 1)

(* ------------------------------ Gate ----------------------------------- *)
Min(a, b) == IF a < b THEN a ELSE b

\* row.iter().zip(&qubit.state).map(|(m, q)| m * q).sum()
RECURSIVE DotUpTo(_, _, _)
DotUpTo(row, state, k) ==
    IF k = 0 THEN CZero
    ELSE CAdd(DotUpTo(row, state, k - 1), CMul(row[k], state[k]))

Dot(row, state) == DotUpTo(row, state, Min(Len(row), Len(state)))

\* an apply that leaves a state of another length than the matrix as it is
apply_skip_mismatch(matrix, state) ==
    IF Len(matrix) # Len(state) THEN state
    ELSE [r \in 1..Len(matrix) |-> Dot(matrix[r], state)]

\* Gate::apply: one output amplitude per matrix row
apply(matrix, state) == [r \in 1..Len(matrix) |-> Dot(matrix[r], state)]

\* the inner loop over k of hadamard
RECURSIVE HadamardProduct(_, _, _)
HadamardProduct(i, j, k) ==
    IF k = 0 THEN RInt(1)
    ELSE RMul(HadamardProduct(i, j, k - 1),
              IF Bit(i, k - 1) = Bit(j, k - 1) THEN h ELSE RNeg(h))

hadamard(qubit_count) ==
    LET size == Pow2(qubit_count)
    IN [i \in 1..size |->
          [j \in 1..size |->
              Complex(HadamardProduct(i - 1, j - 1, qubit_count), RInt(0))]]

pauli_x == <<  <<CInt(0, 0), CInt(1, 0)>>,
               <<CInt(1, 0), CInt(0, 0)>>  >>

\* pauli_y with the two phases exchanged
pauli_y_conj == <<  <<CInt(0, 0), CInt(0, 1)>>,
                    <<CInt(0, 0 - 1), CInt(0, 0)>>  >>

pauli_y == <<  <<CInt(0, 0), CInt(0, 0 - 1)>>,
               <<CInt(0, 1), CInt(0, 0)>>  >>

pauli_z == <<  <<CInt(1, 0), CInt(0, 0)>>,
               <<CInt(0, 0), CInt(0 - 1, 0)>>  >>

s == <<  <<CInt(1, 0), CInt(0, 0)>>,
         <<CInt(0, 0), CInt(0, 1)>>  >>

\* a cnot loop that skips a row index outside the matrix instead of aborting
RECURSIVE CnotLoopSkipping(_, _, _, _, _)
CnotLoopSkipping(res, i, control, target, size) ==
    IF i = size THEN res
    ELSE LET row == IF Bit(i, control) = 1 THEN BitXor(i, Pow2(target)) ELSE i
         IN CnotLoopSkipping(
                IF row >= size THEN res
                ELSE [panicked |-> FALSE,
                      matrix |-> [res.matrix EXCEPT ![row + 1][i + 1] = CInt(1, 0)]],
                i + 1, control, target, size)

\* the loop of cnot over the diagonal (i == j); an out-of-range row index
\* aborts the construction
RECURSIVE CnotLoop(_, _, _, _, _)
CnotLoop(res, i, control, target, size) ==
    IF i = size \/ res.panicked THEN res
    ELSE LET row == IF Bit(i, control) = 1 THEN BitXor(i, Pow2(target)) ELSE i
         IN IF row >= size
            THEN [panicked |-> TRUE, matrix |-> res.matrix]
            ELSE CnotLoop([panicked |-> FALSE,
                           matrix |-> [res.matrix EXCEPT ![row + 1][i + 1] = CInt(1, 0)]],
                          i + 1, control, target, size)

\* cnot testing the target bit and flipping the control bit
cnot_roles_swapped(control, target, num_qubits) ==
    LET size == Pow2(num_qubits)
    IN CnotLoop([panicked |-> FALSE,
                 matrix |-> [i \in 1..size |-> [j \in 1..size |-> CZero]]],
                0, target, control, size)

cnot(control, target, num_qubits) ==
    LET size == Pow2(num_qubits)
    IN CnotLoop([panicked |-> FALSE,
                 matrix |-> [i \in 1..size |-> [j \in 1..size |-> CZero]]],
                0, control, target, size)

(* ------------------------------ Qubit ---------------------------------- *)
\* Qubit::new: the |0> state
qubit_new == <<CInt(1, 0), CInt(0, 0)>>

\* Qubit::from_state wraps the amplitudes verbatim
from_state(state) == state

\* the value Qubit::measure returns for the draw r (state[0] must exist)
measure(state, r) == IF RLess(r, norm_sqr(state[1])) THEN 0 ELSE 1

(* ------------------------- inputs of the model ------------------------- *)
BasisState(n, k) == [j \in 1..Pow2(n) |-> IF j = k + 1 THEN CInt(1, 0) ELSE CZero]

\* an unnormalised state whose amplitudes are pairwise different
Ramp(n) == [j \in 1..Pow2(n) |-> CInt(j, j - 1)]

InitialStates ==
    {<<>>, qubit_new, Ramp(MaxQubits), BasisState(MaxQubits, Pow2(MaxQubits - 1))}

\* rand::random::<f64>() is uniform in [0, 1): the draws k / 2^DrawBits
Draws == {Norm(k, 0, DrawBits) : k \in 0..(Pow2(DrawBits) - 1)}

\* gates a caller appends to a circuit, as in run_quantum_simulation with
\* num_qubits = MaxQubits: hadamard and cnot between neighbouring qubits on
\* the whole register, and the 2x2 gates
GatePool ==
    {hadamard(MaxQubits), pauli_x, pauli_y, pauli_z, s}
    \cup {cnot(c, c + 1, MaxQubits).matrix : c \in 0..(MaxQubits - 2)}

(* ---------------------- Circuit and Simulator -------------------------- *)
Idle == pc \in {"idle", "returned"}

\* Circuit::add_gate
AddGate(g) ==
    /\ Idle
    /\ Len(gates) < MaxGates
    /\ gates' = Append(gates, g)
    /\ UNCHANGED <<initial, qubit, pc, idx, applied, random_number, measurement,
                   call, gate, runs>>

\* Simulator::run up to the call of Circuit::run
SimulatorRun(initial_state) ==
    /\ Idle
    /\ runs < MaxRuns
    /\ initial' = initial_state
    /\ qubit' = from_state(initial_state)
    /\ idx' = 1
    /\ applied' = <<>>
    /\ pc' = "running"
    /\ measurement' = 0 - 1
    /\ random_number' = RInt(0)
    /\ runs' = runs + 1
    /\ UNCHANGED <<gates, call, gate>>

\* the loop of Circuit::run walking the gates from the last to the first
CircuitRunStepReversed ==
    /\ pc = "running"
    /\ idx <= Len(gates)
    /\ qubit' = apply(gates[Len(gates) + 1 - idx], qubit)
    /\ applied' = Append(applied, Len(gates) + 1 - idx)
    /\ idx' = idx + 1
    /\ UNCHANGED <<gates, initial, pc, random_number, measurement, call, gate, runs>>

\* a loop of Circuit::run that consumes the gate list while it applies it
CircuitRunStepDrain ==
    /\ pc = "running"
    /\ gates # <<>>
    /\ qubit' = apply(gates[1], qubit)
    /\ applied' = Append(applied, idx)
    /\ idx' = idx + 1
    /\ gates' = Tail(gates)
    /\ UNCHANGED <<initial, pc, random_number, measurement, call, gate, runs>>

\* one iteration of the loop of Circuit::run
CircuitRunStep ==
    /\ pc = "running"
    /\ idx <= Len(gates)
    /\ qubit' = apply(gates[idx], qubit)
    /\ applied' = Append(applied, idx)
    /\ idx' = idx + 1
    /\ UNCHANGED <<gates, initial, pc, random_number, measurement, call, gate, runs>>

\* the loop of Circuit::run is over; Simulator::run returns the qubit
CircuitRunReturn ==
    /\ pc = "running"
    /\ idx > Len(gates)
    /\ pc' = "returned"
    /\ UNCHANGED <<gates, initial, qubit, idx, applied, random_number, measurement,
                   call, gate, runs>>

\* a measure that collapses the stored state onto the sampled basis state
MeasureCollapse(r) ==
    /\ Idle
    /\ IF Len(qubit) = 0
       THEN /\ pc' = "panicked"
            /\ UNCHANGED <<random_number, measurement, qubit>>
       ELSE /\ random_number' = r
            /\ measurement' = measure(qubit, r)
            /\ qubit' = [j \in 1..Len(qubit) |->
                            IF j = measure(qubit, r) + 1 THEN CInt(1, 0) ELSE CZero]
            /\ pc' = pc
    /\ UNCHANGED <<gates, initial, idx, applied, call, gate, runs>>

\* Qubit::measure with the draw r; indexing an empty state aborts
Measure(r) ==
    /\ Idle
    /\ IF Len(qubit) = 0
       THEN /\ pc' = "panicked"
            /\ UNCHANGED <<random_number, measurement>>
       ELSE /\ random_number' = r
            /\ measurement' = measure(qubit, r)
            /\ pc' = pc
    /\ UNCHANGED <<gates, initial, qubit, idx, applied, call, gate, runs>>

NoCall == [f |-> "none", control |-> 0, target |-> 0, n |-> 0]

Init ==
    /\ gates = <<>>
    /\ initial = qubit_new
    /\ qubit = qubit_new
    /\ pc = "idle"
    /\ idx = 0
    /\ applied = <<>>
    /\ random_number = RInt(0)
    /\ measurement = 0 - 1
    /\ call = NoCall
    /\ gate = <<>>
    /\ runs = 0

Next ==
    \/ \E g \in GatePool : AddGate(g)
    \/ \E st \in InitialStates : SimulatorRun(st)
    \/ CircuitRunStep
    \/ CircuitRunReturn
    \/ \E r \in Draws : Measure(r)

Spec == Init /\ [][Next]_vars

(* ------------- the factories and Gate::apply called directly ----------- *)
HadamardCall(n) == [f |-> "hadamard", control |-> 0, target |-> 0, n |-> n]

CnotCall(c, t, n) == [f |-> "cnot", control |-> c, target |-> t, n |-> n]

FixedCall(f) == [f |-> f, control |-> 0, target |-> 0, n |-> 1]

\* factory calls, cnot with every control and target in 0..num_qubits
Calls ==
    {HadamardCall(n) : n \in 1..MaxQubits}
    \cup {FixedCall(f) : f \in {"pauli_x", "pauli_y", "pauli_z", "s"}}
    \cup {CnotCall(a[1], a[2], a[3]) :
             a \in {b \in (0..MaxQubits) \X (0..MaxQubits) \X (1..MaxQubits) :
                      b[1] <= b[3] /\ b[2] <= b[3]}}

Factory(c) ==
    CASE c.f = "hadamard" -> [panicked |-> FALSE, matrix |-> hadamard(c.n)]
      [] c.f = "pauli_x" -> [panicked |-> FALSE, matrix |-> pauli_x]
      [] c.f = "pauli_y" -> [panicked |-> FALSE, matrix |-> pauli_y]
      [] c.f = "pauli_z" -> [panicked |-> FALSE, matrix |-> pauli_z]
      [] c.f = "s" -> [panicked |-> FALSE, matrix |-> s]
      [] c.f = "cnot" -> cnot(c.control, c.target, c.n)

Amplitudes == {CZero, CInt(1, 0), CInt(0, 1), Complex(h, RInt(0)), CInt(2, 0 - 3)}

\* states handed to Qubit::from_state
States == InitialStates \cup {<<a, b>> : a \in Amplitudes, b \in Amplitudes}

\* let gate = <factory>(...)
MakeGate(c) ==
    /\ pc = "idle"
    /\ applied = <<>>
    /\ call' = c
    /\ IF Factory(c).panicked
       THEN pc' = "panicked" /\ gate' = <<>>
       ELSE pc' = pc /\ gate' = Factory(c).matrix
    /\ UNCHANGED <<gates, initial, qubit, idx, applied, random_number, measurement,
                   runs>>

\* let mut qubit = Qubit::from_state(state)
FromState(state) ==
    /\ pc = "idle"
    /\ initial' = state
    /\ qubit' = from_state(state)
    /\ applied' = <<>>
    /\ UNCHANGED <<gates, pc, idx, random_number, measurement, call, gate, runs>>

\* gate.apply(&mut qubit)
GateApply ==
    /\ pc = "idle"
    /\ call.f # "none"
    /\ Len(applied) < MaxApplies
    /\ qubit' = apply(gate, qubit)
    /\ applied' = Append(applied, 0)
    /\ UNCHANGED <<gates, initial, pc, idx, random_number, measurement, call, gate, runs>>

NextGates ==
    \/ \E c \in Calls : MakeGate(c)
    \/ \E st \in States : FromState(st)
    \/ GateApply

SpecGates == Init /\ [][NextGates]_vars

(* ------------------ the circuits of the integration tests -------------- *)
TestGates == {hadamard(1), pauli_x, pauli_y, pauli_z, hadamard(3), cnot(0, 1, 3).matrix}

TestStates == {BasisState(1, 0), BasisState(1, 1), BasisState(3, 0)}

NextTests ==
    \/ \E g \in TestGates : AddGate(g)
    \/ \E st \in TestStates : SimulatorRun(st)
    \/ CircuitRunStep
    \/ CircuitRunReturn

SpecTests == Init /\ [][NextTests]_vars

(* ============================== claims ================================= *)
IsHadamardCall == call.f = "hadamard" /\ pc = "idle"

\* the run of the circuit <<g1, g2>> on the state st has returned
Ran(g1, g2, st) ==
    /\ pc = "returned"
    /\ gates = <<g1, g2>>
    /\ applied = <<1, 2>>
    /\ initial = st

(* C1: a gate whose matrix dimension differs from the length of the state  *)
(* it is applied to makes the run fail: the step produces no new state and *)
(* the failure ends the run.                                               *)
C1_MismatchFails ==
    [][(pc = "running" /\ idx <= Len(gates) /\ Len(gates[idx]) # Len(qubit))
          => (pc' = "panicked" /\ qubit' = qubit)]_vars

(* C2: for n >= 1 and a state of length 2^n, hadamard(n) applied twice     *)
(* gives back the original state.                                          *)
C2_HadamardInvolution ==
    (IsHadamardCall /\ Len(applied) = 2 /\ Len(initial) = Pow2(call.n))
        => qubit = initial

RECURSIVE RPow(_, _)
RPow(x, n) == IF n = 0 THEN RInt(1) ELSE RMul(x, RPow(x, n - 1))

\* popcount(i AND j)
RECURSIVE PopCountAnd(_, _)
PopCountAnd(i, j) ==
    IF i = 0 \/ j = 0 THEN 0
    ELSE PopCountAnd(i \div 2, j \div 2) + (IF i % 2 = 1 /\ j % 2 = 1 THEN 1 ELSE 0)

\* Kronecker product of the matrices A and B
Kron(A, B) ==
    LET m == Len(B)
    IN [r \in 1..(Len(A) * m) |->
          [c \in 1..(Len(A) * m) |->
              CMul(A[((r - 1) \div m) + 1][((c - 1) \div m) + 1],
                   B[((r - 1) % m) + 1][((c - 1) % m) + 1])]]

Hadamard2x2 ==
    <<  <<Complex(h, RInt(0)), Complex(h, RInt(0))>>,
        <<Complex(h, RInt(0)), Complex(RNeg(h), RInt(0))>>  >>

RECURSIVE KronPower(_, _)
KronPower(A, n) == IF n = 1 THEN A ELSE Kron(KronPower(A, n - 1), A)

(* C3: entry (i, j) of hadamard(n) is h^n * (-1)^popcount(i AND j), and    *)
(* the matrix is the n-fold Kronecker product of [[h, h], [h, -h]].        *)
C3_HadamardEntries ==
    IsHadamardCall =>
        /\ Len(gate) = Pow2(call.n)
        /\ \A i \in 0..(Pow2(call.n) - 1) : \A j \in 0..(Pow2(call.n) - 1) :
              gate[i + 1][j + 1] =
                  Complex(IF PopCountAnd(i, j) % 2 = 0 THEN RPow(h, call.n)
                          ELSE RNeg(RPow(h, call.n)), RInt(0))
        /\ gate = KronPower(Hadamard2x2, call.n)

(* C4: the circuit [hadamard(1), pauli_x] run on |0> ends in the state     *)
(* [1/sqrt 2, 1/sqrt 2], both imaginary parts zero.                        *)
C4_HadamardPauliX ==
    Ran(hadamard(1), pauli_x, BasisState(1, 0))
        => qubit = <<Complex(h, RInt(0)), Complex(h, RInt(0))>>

(* C5: the circuit [hadamard(3), cnot(0, 1, 3)] run on |000> ends with     *)
(* amplitudes 0.5, 0.5, 0, 0 at the indices 0, 1, 2, 3.                    *)
C5_HadamardCnot ==
    Ran(hadamard(3), cnot(0, 1, 3).matrix, BasisState(3, 0))
        => /\ qubit[1] = Complex(<<1, 0, 1>>, RInt(0))
           /\ qubit[2] = Complex(<<1, 0, 1>>, RInt(0))
           /\ qubit[3] = CZero
           /\ qubit[4] = CZero

IsValidCnotCall ==
    /\ call.f = "cnot"
    /\ call.control # call.target
    /\ call.control < call.n
    /\ call.target < call.n

\* i XOR (1 << target) when bit control of i is 1, else i
CnotRow(i) ==
    IF Bit(i, call.control) = 0 THEN i
    ELSE IF Bit(i, call.target) = 1 THEN i - Pow2(call.target)
    ELSE i + Pow2(call.target)

(* C6: for distinct control and target below n, cnot(control, target, n)   *)
(* is built without failure, is 2^n x 2^n and has in column i a single 1,  *)
(* at row i XOR (1 << target) when bit control of i is 1 and at row i      *)
(* otherwise, every other entry 0; applied to a state of length 2^n it     *)
(* moves the amplitude of index i to that row.                             *)
C6_CnotPermutation ==
    IsValidCnotCall =>
        LET d == Pow2(call.n)
        IN /\ pc = "idle"
           /\ Len(gate) = d
           /\ \A r \in 0..(d - 1) :
                 /\ Len(gate[r + 1]) = d
                 /\ \A i \in 0..(d - 1) :
                       gate[r + 1][i + 1] = IF r = CnotRow(i) THEN CInt(1, 0) ELSE CZero
           /\ (Len(applied) = 1 /\ Len(initial) = d) =>
                 /\ Len(qubit) = d
                 /\ \A i \in 0..(d - 1) : qubit[CnotRow(i) + 1] = initial[i + 1]

C6_Witness ==
    /\ IsValidCnotCall
    /\ Len(applied) = 1
    /\ Len(initial) = Pow2(call.n)
    /\ \E i \in 0..(Len(initial) - 1) :
          /\ CnotRow(i) # i
          /\ initial[i + 1] # initial[CnotRow(i) + 1]
          /\ qubit[CnotRow(i) + 1] = initial[i + 1]

\* the cumulative-probability walk: the first index k >= from at which the
\* mass accumulated so far (acc) plus |state[k]|^2 exceeds r, else the last
RECURSIVE CumulativeWalk(_, _, _, _)
CumulativeWalk(state, r, k, acc) ==
    LET mass == RAdd(acc, norm_sqr(state[k + 1]))
    IN IF RLess(r, mass) \/ k = Len(state) - 1 THEN k
       ELSE CumulativeWalk(state, r, k + 1, mass)

\* a step that is a call of measure() returning a value
MeasureReturns ==
    /\ Idle
    /\ pc' = pc
    /\ <<random_number, measurement>>' # <<random_number, measurement>>

(* C7: measure() returns the first index at which the cumulative sum of    *)
(* |amplitude|^2 exceeds the draw, the last index if there is none; the    *)
(* result is a valid index of the amplitude vector.                        *)
C7_MeasureCumulativeWalk ==
    [][MeasureReturns =>
          /\ measurement' = CumulativeWalk(qubit, random_number', 0, RInt(0))
          /\ measurement' \in 0..(Len(qubit) - 1)]_vars

RECURSIVE ApplyAll(_, _)
ApplyAll(gs, state) ==
    IF gs = <<>> THEN state
    ELSE apply(gs[Len(gs)], ApplyAll(SubSeq(gs, 1, Len(gs) - 1), state))

(* C8: Circuit.run applies the gates in the order of add_gate, each once,  *)
(* each to the output of the one before it: after k iterations of its loop *)
(* the state is gk.apply(...g1.apply(initial)), the loop ends after the    *)
(* last gate, and an empty circuit leaves the state unchanged.             *)
C8_RunInOrder ==
    pc = "running" =>
        LET k == Len(applied)
        IN /\ idx = k + 1
           /\ k <= Len(gates)
           /\ applied = [j \in 1..k |-> j]
           /\ qubit = ApplyAll(SubSeq(gates, 1, k), initial)
           /\ Len(gates) = 0 => qubit = initial

C8_Witness ==
    /\ pc = "running"
    /\ idx = 3
    /\ Len(gates) = 2
    /\ applied = <<1, 2>>
    /\ qubit = apply(gates[2], apply(gates[1], initial))
    /\ qubit # apply(gates[1], apply(gates[2], initial))

(* C9: on a state [a, b] pauli_x gives [b, a], pauli_y gives [-i*b, i*a]   *)
(* and pauli_z gives [a, -b].                                              *)
C9_PauliAction ==
    (pc = "idle" /\ Len(applied) = 1 /\ Len(initial) = 2) =>
        LET a == initial[1]
            b == initial[2]
        IN /\ call.f = "pauli_x" => qubit = <<b, a>>
           /\ call.f = "pauli_y" =>
                 qubit = <<Complex(b[2], RNeg(b[1])), Complex(RNeg(a[2]), a[1])>>
           /\ call.f = "pauli_z" =>
                 qubit = <<a, Complex(RNeg(b[1]), RNeg(b[2]))>>

C9_Witness ==
    /\ call.f = "pauli_y"
    /\ Len(applied) = 1
    /\ initial = <<CInt(2, 0 - 3), CInt(0, 1)>>
    /\ qubit = <<CInt(1, 0), CInt(3, 2)>>

C11_RunIsPure ==
    [][/\ pc = "running" => (gates' = gates /\ initial' = initial)
       /\ (Idle /\ pc' = "running") => gates' = gates
       /\ (pc = "running" /\ pc' = "returned") => qubit' = ApplyAll(gates, initial)]_vars

\* a second run of a circuit has returned, the circuit changed the state
C11_Witness ==
    /\ pc = "returned"
    /\ runs = 2
    /\ Len(gates) = 2
    /\ applied = <<1, 2>>
    /\ qubit # initial
    /\ qubit = ApplyAll(gates, initial)

\* cnot called with control == target or an index >= num_qubits
IsInvalidCnotCall ==
    /\ call.f = "cnot"
    /\ (call.control = call.target \/ call.control >= call.n \/ call.target >= call.n)

\* the call has returned a 2^n x 2^n matrix
CnotReturnedSquare ==
    /\ pc = "idle"
    /\ Len(gate) = Pow2(call.n)
    /\ \A r \in 1..Len(gate) : Len(gate[r]) = Pow2(call.n)

(* C12 as claimed: cnot called with control == target or with control or   *)
(* target >= num_qubits always completes and returns a square matrix.      *)
C12_CnotNeverFails == IsInvalidCnotCall => CnotReturnedSquare

(* C12: cnot validates nothing; called with control == target or with an   *)
(* index >= num_qubits it returns a square 2^n x 2^n matrix, except when   *)
(* target >= num_qubits and control < num_qubits: then the row index       *)
(* i XOR (1 << target) is outside the matrix and the construction aborts.  *)
C12_CnotFailsOnlyOnTarget ==
    IsInvalidCnotCall =>
        IF call.target >= call.n /\ call.control < call.n
        THEN pc = "panicked"
        ELSE CnotReturnedSquare

\* cnot(c, c, n) has returned a square matrix with an all-zero row
C12_Witness ==
    /\ IsInvalidCnotCall
    /\ call.control = call.target
    /\ CnotReturnedSquare
    /\ \E r \in 1..Len(gate) : \A c \in 1..Len(gate) : gate[r][c] = CZero

\* the state cut or filled with zeros to the length d
Resize(state, d) == [k \in 1..d |-> IF k <= Len(state) THEN state[k] ELSE CZero]

====
